---- MODULE Spec2Model ----
(***************************************************************************)
(* STween: a header-only tweening library.  Two revisions of the header    *)
(* are modelled: src/STween.h (swap-with-last removal, From by pointer and *)
(* by value) and src/unnamed/part_000 (re-scan-and-erase removal, From by  *)
(* pointer only).  The value type T is float.  Times are whole ticks (one  *)
(* tick = 0.5 s in the spec's scenarios), values are exact rationals       *)
(* extended with the IEEE specials NaN, +Inf and -Inf; all the numbers the *)
(* model draws are small and dyadic, so float arithmetic on them is exact, *)
(* except for the Back constant 1.70158, taken at its decimal value.       *)
(***************************************************************************)
EXTENDS Integers, Sequences, FiniteSets, TLC

(***************************************************************************)
(* Bounds of the model.                                                    *)
(***************************************************************************)
MaxOps == 5
MaxVec == 3
MaxChainDepth == 1

\* times in ticks; positions stay dyadic
Durations == {2}
DeltaTimes == {0, 1, 2}

\* "a" is the object the program runs; "b" is only filled, to be handed to
\* Chain and AddTweens
Registries == {"a", "b"}
Mains == {"a"}
Revisions == {"swap", "erase"}
Targets == {"x", "y"}
FromTargets == {"x"}
StartInputs == {0}
ValueInputs == {10}
EasingInputs == {"QuadranticInOut"}
CallbackInputs == {"cb"}

\* the objects handed to Chain one after the other, and how many records
\* each of them holds at most
Chained == {"b", "c"}
MaxGiven == 1

\* the start values, end values and durations of the records whose easing is
\* examined at its end points
EaseStarts == {0, 4}
EaseEnds == {10, -6}
EaseDurations == {1, 2}

(***************************************************************************)
(* float arithmetic: [n, d] with d > 0 is the rational n/d in lowest       *)
(* terms; d = 0 is a special: n = 1 is +Inf, n = -1 is -Inf, n = 0 is NaN. *)
(***************************************************************************)
Abs(i) == IF i < 0 THEN -i ELSE i

Sgn(i) == IF i < 0 THEN -1 ELSE IF i > 0 THEN 1 ELSE 0

RECURSIVE GCD(_, _)
GCD(a, b) == IF b = 0 THEN a ELSE GCD(b, a % b)

Norm(n, d) ==
    LET g == GCD(Abs(n), d)
    IN  [n |-> n \div g, d |-> d \div g]

Q(i) == [n |-> i, d |-> 1]

NaN == [n |-> 0, d |-> 0]

Special(s) == [n |-> s, d |-> 0]

IsFinite(x) == x.d > 0

FNeg(x) == [n |-> -x.n, d |-> x.d]

\* the one element of a singleton: operands are bound to their values, so an
\* operand is evaluated once however often the result uses it
The(S) == CHOOSE v \in S : TRUE

AddValues(x, y) ==
    IF IsFinite(x) /\ IsFinite(y)
    THEN LET g == GCD(x.d, y.d)
         IN  Norm(x.n * (y.d \div g) + y.n * (x.d \div g), (x.d \div g) * y.d)
    ELSE IF x = NaN \/ y = NaN THEN NaN
    ELSE IF IsFinite(x) THEN y
    ELSE IF IsFinite(y) THEN x
    ELSE IF x = y THEN x ELSE NaN

FAdd(a, b) == The({AddValues(x, y) : x \in {a}, y \in {b}})

FSub(a, b) == The({AddValues(x, FNeg(y)) : x \in {a}, y \in {b}})

MulValues(x, y) ==
    IF IsFinite(x) /\ IsFinite(y)
    THEN LET g1 == GCD(Abs(x.n), y.d)
             g2 == GCD(Abs(y.n), x.d)
         IN  Norm((x.n \div g1) * (y.n \div g2), (x.d \div g2) * (y.d \div g1))
    ELSE Special(Sgn(x.n) * Sgn(y.n))

FMul(a, b) == The({MulValues(x, y) : x \in {a}, y \in {b}})

DivValues(x, y) ==
    IF IsFinite(x) /\ IsFinite(y)
    THEN IF y.n = 0 THEN Special(Sgn(x.n))
         ELSE MulValues(x, [n |-> Sgn(y.n) * y.d, d |-> Abs(y.n)])
    ELSE IF x = NaN \/ y = NaN THEN NaN
    ELSE IF IsFinite(y) THEN Special(x.n * (IF y.n < 0 THEN -1 ELSE 1))
    ELSE IF IsFinite(x) THEN Q(0)
    ELSE NaN

FDiv(a, b) == The({DivValues(x, y) : x \in {a}, y \in {b}})

LtValues(x, y) ==
    IF x = NaN \/ y = NaN THEN FALSE
    ELSE IF IsFinite(x) /\ IsFinite(y)
         THEN LET g == GCD(x.d, y.d)
              IN  x.n * (y.d \div g) < y.n * (x.d \div g)
    ELSE IF IsFinite(x) THEN y.n = 1
    ELSE IF IsFinite(y) THEN x.n = -1
    ELSE x.n < y.n

FLt(a, b) == The({LtValues(x, y) : x \in {a}, y \in {b}})

(***************************************************************************)
(* The thirteen easing functions, T = float.                               *)
(***************************************************************************)
BackS == [n |-> 85079, d |-> 50000]

BackS2 == FMul(BackS, [n |-> 61, d |-> 40])

Linear(position, start, end) ==
    FAdd(FMul(FSub(end, start), position), start)

QuadIn(position, start, end) ==
    FAdd(FMul(FMul(FSub(end, start), position), position), start)

QuadOut(position, start, end) ==
    FAdd(FMul(FMul(FMul(FSub(end, start), Q(-1)), position),
              FSub(position, Q(2))), start)

QuadInOut(position, start, end) ==
    LET p2 == FMul(position, Q(2))
        p3 == FSub(p2, Q(1))
    IN  IF FLt(p2, Q(1))
        THEN FAdd(FMul(FMul(FDiv(FSub(end, start), Q(2)), p2), p2), start)
        ELSE FAdd(FMul(FDiv(FMul(FSub(end, start), Q(1)), Q(2)),
                       FSub(FMul(p3, FSub(p3, Q(2))), Q(1))), start)

CubicIn(position, start, end) ==
    FAdd(FMul(FMul(FMul(FSub(end, start), position), position), position), start)

CubicOut(position, start, end) ==
    LET p == FSub(position, Q(1))
    IN  FAdd(FMul(FSub(end, start), FAdd(FMul(FMul(p, p), p), Q(1))), start)

CubicInOut(position, start, end) ==
    LET p2 == FMul(position, Q(2))
        p3 == FSub(p2, Q(2))
    IN  IF FLt(p2, Q(1))
        THEN FAdd(FMul(FMul(FMul(FDiv(FSub(end, start), Q(2)), p2), p2), p2), start)
        ELSE FAdd(FMul(FDiv(FSub(end, start), Q(2)),
                       FAdd(FMul(FMul(p3, p3), p3), Q(2))), start)

Pow5(p) == FMul(FMul(FMul(FMul(p, p), p), p), p)

QuintIn(position, start, end) ==
    FAdd(FMul(FMul(FMul(FMul(FMul(FSub(end, start), position), position),
                        position), position), position), start)

QuintOut(position, start, end) ==
    LET p == FSub(position, Q(1))
    IN  FAdd(FMul(FSub(end, start), FAdd(Pow5(p), Q(1))), start)

QuintInOut(position, start, end) ==
    LET p2 == FMul(position, Q(2))
        p3 == FSub(p2, Q(2))
    IN  IF FLt(p2, Q(1))
        THEN FAdd(FMul(FDiv(FSub(end, start), Q(2)), Pow5(p2)), start)
        ELSE FAdd(FMul(FDiv(FSub(end, start), Q(2)), FAdd(Pow5(p3), Q(2))), start)

BackIn(position, start, end) ==
    LET s == BackS
        postFix == position
    IN  FAdd(FMul(FMul(FMul(FSub(end, start), postFix), position),
                  FSub(FMul(FAdd(s, Q(1)), position), s)), start)

BackOut(position, start, end) ==
    LET s == BackS
        p == FSub(position, Q(1))
    IN  FAdd(FMul(FSub(end, start),
                  FAdd(FMul(FMul(p, p), FAdd(FMul(FAdd(s, Q(1)), p), s)), Q(1))),
             start)

BackInOut(position, start, end) ==
    LET s == BackS2
        b == start
        c == FSub(end, start)
        d == Q(1)
        t == FDiv(position, FDiv(d, Q(2)))
        t2 == FSub(t, Q(2))
    IN  IF FLt(t, Q(1))
        THEN FAdd(FMul(FDiv(c, Q(2)),
                       FMul(FMul(t, t), FSub(FMul(FAdd(s, Q(1)), t), s))), b)
        ELSE FAdd(FMul(FDiv(c, Q(2)),
                       FAdd(FMul(FMul(t2, t2), FAdd(FMul(FAdd(s, Q(1)), t2), s)),
                            Q(2))), b)

EasingFunction ==
    {"Linear", "QuadranticIn", "QuadranticOut", "QuadranticInOut",
     "CubicIn", "CubicOut", "CubicInOut", "QuintIn", "QuintOut", "QuintInOut",
     "BackIn", "BackOut", "BackInOut"}

\* the switch of Update
Ease(easing, timePos, start, end) ==
    CASE easing = "Linear" -> Linear(timePos, start, end)
      [] easing = "QuadranticIn" -> QuadIn(timePos, start, end)
      [] easing = "QuadranticOut" -> QuadOut(timePos, start, end)
      [] easing = "QuadranticInOut" -> QuadInOut(timePos, start, end)
      [] easing = "CubicIn" -> CubicIn(timePos, start, end)
      [] easing = "CubicOut" -> CubicOut(timePos, start, end)
      [] easing = "CubicInOut" -> CubicInOut(timePos, start, end)
      [] easing = "QuintIn" -> QuintIn(timePos, start, end)
      [] easing = "QuintOut" -> QuintOut(timePos, start, end)
      [] easing = "QuintInOut" -> QuintInOut(timePos, start, end)
      [] easing = "BackIn" -> BackIn(timePos, start, end)
      [] easing = "BackOut" -> BackOut(timePos, start, end)
      [] easing = "BackInOut" -> BackInOut(timePos, start, end)
      [] OTHER -> Linear(timePos, start, end)


(***************************************************************************)
(* State.  reg[r] is one STween<float> object, mem the caller-owned floats *)
(* that From by pointer refers to.  out is what the last call was given    *)
(* (the records handed to AddTween or AddTweens, for Chain the list it     *)
(* stored and the list it overwrote) and what it let the caller observe    *)
(* (callback invocations and target writes, in order).                     *)
(* nops counts the calls made; crashed is set when undefined behaviour     *)
(* stopped the program.  revision is the header the program was built      *)
(* with.  The field                                                        *)
(* completions of a record is history: how often the completion branch of  *)
(* Update ran on that object.  The field born is history too: with track   *)
(* set it is a stamp that grows with the order in which the records of one *)
(* registry were pushed, without track it is 0.                            *)
(***************************************************************************)
VARIABLES revision, reg, mem, out, nops, crashed, track

vars == <<revision, reg, mem, out, nops, crashed, track>>

\* STween::STween()
NewSTween == [m_tweenVec |-> <<>>, m_lastTweenIndex |-> -1]

\* TweenData::TweenData(int tID) followed by the assignments of From; the
\* fields the constructor and From leave unset are parameters
TweenData(tID, byPtr, initVal, cpy, garbage) ==
    [tweenID |-> tID, fromReady |-> TRUE, byPointer |-> byPtr,
     reversed |-> FALSE, initialValue |-> initVal, initialCpy |-> cpy,
     finalValue |-> garbage, duration |-> 0, easing |-> "Linear",
     timeCounter |-> 0, finishCallback |-> "none", stepCallback |-> "none",
     endTween |-> <<>>, completions |-> 0, born |-> 0]

\* TweenData::operator==
TweenEq(a, b) ==
    /\ a.tweenID = b.tweenID
    /\ a.initialValue = b.initialValue
    /\ a.finalValue = b.finalValue
    /\ a.timeCounter = b.timeCounter
    /\ a.reversed = b.reversed
    /\ a.easing = b.easing

\* records a caller builds directly from the public struct, to hand to AddTween
UserTweens ==
    {[TweenData(0, TRUE, "y", Q(0), Q(10)) EXCEPT
         !.fromReady = active, !.duration = 1, !.finishCallback = "cb",
         !.stepCallback = "cb"] :
     active \in BOOLEAN}

\* the values an uninitialised float may hold
Indeterminate == {Q(v) : v \in StartInputs \cup ValueInputs}

NoOut(op, r) ==
    [op |-> op, r |-> r, size0 |-> Len(reg[r].m_tweenVec), dt |-> 0,
     steps |-> <<>>, finishes |-> <<>>,
     writes |-> <<>>, completed |-> <<>>, leftover |-> <<>>, added |-> 0,
     fault |-> "none", given |-> <<>>, chained |-> <<>>]

Constructed ==
    /\ reg = [r \in Registries |-> NewSTween]
    /\ mem = [p \in Targets |-> Q(0)]
    /\ out = [op |-> "new", r |-> "a", size0 |-> 0, dt |-> 0, steps |-> <<>>,
              finishes |-> <<>>, writes |-> <<>>, completed |-> <<>>,
              leftover |-> <<>>, added |-> 0, fault |-> "none",
              given |-> <<>>, chained |-> <<>>]
    /\ nops = 0
    /\ crashed = FALSE

\* a program built with src/STween.h
Init == revision = "swap" /\ track = FALSE /\ Constructed

\* a program built with src/unnamed/part_000
InitErase == revision = "erase" /\ track = FALSE /\ Constructed

InitBoth == revision \in Revisions /\ track = FALSE /\ Constructed

\* a program built with src/STween.h, the order of the pushes recorded
InitOrder == revision = "swap" /\ track = TRUE /\ Constructed

\* a program built with src/STween.h that has made, on a float holding start,
\* the calls From(&x).To(end).Time(sec).Easing(easingType), with or without
\* Reversed(true)
InitEasing ==
    /\ revision = "swap"
    /\ track = FALSE
    /\ nops = 0
    /\ crashed = FALSE
    /\ \E start \in EaseStarts, end \in EaseEnds, sec \in EaseDurations,
          easingType \in EasingFunction, isReversed \in BOOLEAN :
          /\ mem = [p \in Targets |-> IF p = "x" THEN Q(start) ELSE Q(0)]
          /\ reg = [r \in Registries |->
                      IF r \in Mains
                      THEN [m_tweenVec |->
                              <<[TweenData(-1, TRUE, "x", Q(start), Q(end))
                                   EXCEPT !.duration = sec,
                                          !.easing = easingType,
                                          !.reversed = isReversed]>>,
                            m_lastTweenIndex |-> 0]
                      ELSE NewSTween]
          /\ out = [op |-> "set", r |-> "a", size0 |-> 1, dt |-> 0,
                    steps |-> <<>>, finishes |-> <<>>, writes |-> <<>>,
                    completed |-> <<>>, leftover |-> <<>>, added |-> 0,
                    fault |-> "none", given |-> <<>>, chained |-> <<>>]

CanCall == ~crashed /\ nops < MaxOps

Called == nops' = nops + 1 /\ UNCHANGED <<revision, track>>

\* the stamp of the record that m_tweenVec.push_back adds to st in this call
Stamp(st) ==
    IF track THEN nops * (MaxVec + 1) + Len(st.m_tweenVec) ELSE 0

GetTweens(r) == reg[r].m_tweenVec

Size(r) == Len(reg[r].m_tweenVec)

\* a variant of AddTweenTo that makes the pushed record active
AddTweenActivated(st, tween) ==
    [m_tweenVec |-> Append(st.m_tweenVec,
                           [tween EXCEPT !.tweenID = st.m_lastTweenIndex,
                                         !.completions = 0,
                                         !.born = Stamp(st),
                                         !.fromReady = TRUE]),
     m_lastTweenIndex |-> st.m_lastTweenIndex + 1]

\* STween::AddTween on one STween object
AddTweenTo(st, tween) ==
    [m_tweenVec |-> Append(st.m_tweenVec,
                           [tween EXCEPT !.tweenID = st.m_lastTweenIndex,
                                         !.completions = 0,
                                         !.born = Stamp(st)]),
     m_lastTweenIndex |-> st.m_lastTweenIndex + 1]

\* a variant of AddTweensTo that takes the entries of tweens from the back
RECURSIVE AddTweensReversed(_, _, _)
AddTweensReversed(st, tweens, k) ==
    IF k > Len(tweens) THEN st
    ELSE The({AddTweensReversed(s, tweens, k + 1) :
              s \in {AddTweenTo(st, tweens[Len(tweens) + 1 - k])}})

\* STween::AddTweens on one STween object, from entry k of tweens on
RECURSIVE AddTweensTo(_, _, _)
AddTweensTo(st, tweens, k) ==
    IF k > Len(tweens) THEN st
    ELSE The({AddTweensTo(s, tweens, k + 1) : s \in {AddTweenTo(st, tweens[k])}})

\* a variant of Released that clears the vector and keeps m_lastTweenIndex
ReleasedKeepsIndex(st) ==
    [m_tweenVec |-> <<>>, m_lastTweenIndex |-> st.m_lastTweenIndex]

\* m_tweenVec.clear(); m_lastTweenIndex = -1
Released(st) == [m_tweenVec |-> <<>>, m_lastTweenIndex |-> -1]

ReleaseTweens(r) ==
    /\ CanCall
    /\ reg' = [reg EXCEPT ![r] = Released(@)]
    /\ out' = NoOut("ReleaseTweens", r)
    /\ Called
    /\ UNCHANGED <<mem, crashed>>

\* From(T* initVal); the record is pushed as built, m_lastTweenIndex follows
FromPtr(r, p) ==
    /\ CanCall
    /\ Size(r) < MaxVec
    /\ \E garbage \in Indeterminate :
          reg' = [reg EXCEPT ![r] =
                    [m_tweenVec |-> Append(@.m_tweenVec,
                        [TweenData(@.m_lastTweenIndex, TRUE, p, mem[p], garbage)
                           EXCEPT !.born = Stamp(reg[r])]),
                     m_lastTweenIndex |-> @.m_lastTweenIndex + 1]]
    /\ out' = NoOut("From", r)
    /\ Called
    /\ UNCHANGED <<mem, crashed>>

\* From(T initVal), STween.h only
FromVal(r, v) ==
    /\ CanCall
    /\ revision = "swap"
    /\ Size(r) < MaxVec
    /\ \E garbage \in Indeterminate :
          reg' = [reg EXCEPT ![r] =
                    [m_tweenVec |-> Append(@.m_tweenVec,
                        [TweenData(@.m_lastTweenIndex, FALSE, "null", Q(v), garbage)
                           EXCEPT !.born = Stamp(reg[r])]),
                     m_lastTweenIndex |-> @.m_lastTweenIndex + 1]]
    /\ out' = NoOut("From", r)
    /\ Called
    /\ UNCHANGED <<mem, crashed>>

\* what a call that assigns value to field of tween tells of a chain list:
\* for Chain the list it stores and the list the record held before
Overwritten(field, value, tween) ==
    IF field = "endTween" THEN <<[stored |-> value, held |-> tween.endTween]>>
    ELSE <<>>

\* a variant of SetLast that assigns to m_tweenVec[0]
SetFirst(op, r, field, value) ==
    LET st == reg[r]
        i == st.m_lastTweenIndex
    IN  /\ CanCall
        /\ Called
        /\ UNCHANGED mem
        /\ IF 0 <= i /\ i < Len(st.m_tweenVec)
           THEN /\ reg' = [reg EXCEPT ![r].m_tweenVec[1] =
                             [@ EXCEPT ![field] = value]]
                /\ out' = [NoOut("set", r) EXCEPT
                             !.chained = Overwritten(field, value,
                                                     st.m_tweenVec[1])]
                /\ UNCHANGED crashed
           ELSE /\ UNCHANGED reg
                /\ out' = [NoOut("set", r) EXCEPT !.fault = "oob"]
                /\ crashed' \in BOOLEAN

\* m_tweenVec[m_lastTweenIndex].<field> = <value>: the body shared by To, Time,
\* OnFinish, OnStep, Chain, Reversed and Easing.  With m_lastTweenIndex out of
\* range the access is undefined: the program stops or goes on.
SetLast(op, r, field, value) ==
    LET st == reg[r]
        i == st.m_lastTweenIndex
    IN  /\ CanCall
        /\ Called
        /\ UNCHANGED mem
        /\ IF 0 <= i /\ i < Len(st.m_tweenVec)
           THEN /\ reg' = [reg EXCEPT ![r].m_tweenVec[i + 1] =
                             [@ EXCEPT ![field] = value]]
                /\ out' = [NoOut("set", r) EXCEPT
                             !.chained = Overwritten(field, value,
                                                     st.m_tweenVec[i + 1])]
                /\ UNCHANGED crashed
           ELSE /\ UNCHANGED reg
                /\ out' = [NoOut("set", r) EXCEPT !.fault = "oob"]
                /\ crashed' \in BOOLEAN

To(r, finalVal) == SetLast("To", r, "finalValue", Q(finalVal))

Time(r, sec) == SetLast("Time", r, "duration", sec)

OnFinish(r, endCallback) == SetLast("OnFinish", r, "finishCallback", endCallback)

OnStep(r, callback) == SetLast("OnStep", r, "stepCallback", callback)

Reversed(r, isReversed) == SetLast("Reversed", r, "reversed", isReversed)

Easing(r, easingType) == SetLast("Easing", r, "easing", easingType)

RECURSIVE Depth(_)
Depth(tweens) ==
    IF tweens = <<>> THEN 0
    ELSE LET h == 1 + Depth(Head(tweens).endTween)
             t == Depth(Tail(tweens))
         IN  IF h > t THEN h ELSE t

\* a variant of Chain that takes the records out of the chained object
ChainMoves(r, chain) ==
    LET st == reg[r]
        i == st.m_lastTweenIndex
    IN  /\ Depth(GetTweens(chain)) <= MaxChainDepth
        /\ CanCall
        /\ Called
        /\ UNCHANGED mem
        /\ IF 0 <= i /\ i < Len(st.m_tweenVec)
           THEN /\ reg' = [reg EXCEPT
                             ![r].m_tweenVec[i + 1].endTween = GetTweens(chain),
                             ![chain].m_tweenVec = <<>>]
                /\ out' = [NoOut("set", r) EXCEPT
                             !.chained = Overwritten("endTween",
                                                     GetTweens(chain),
                                                     st.m_tweenVec[i + 1])]
                /\ UNCHANGED crashed
           ELSE /\ UNCHANGED reg
                /\ out' = [NoOut("set", r) EXCEPT !.fault = "oob"]
                /\ crashed' \in BOOLEAN

\* a variant of Chain that inserts the records of the chained object behind
\* the ones the list holds
ChainAccumulates(r, chain) ==
    LET st == reg[r]
        i == st.m_lastTweenIndex
    IN  /\ Depth(GetTweens(chain)) <= MaxChainDepth
        /\ CanCall
        /\ Called
        /\ UNCHANGED mem
        /\ IF 0 <= i /\ i < Len(st.m_tweenVec)
           THEN /\ reg' = [reg EXCEPT ![r].m_tweenVec[i + 1].endTween =
                             @ \o GetTweens(chain)]
                /\ out' = [NoOut("set", r) EXCEPT
                             !.chained = Overwritten("endTween",
                                                     GetTweens(chain),
                                                     st.m_tweenVec[i + 1])]
                /\ UNCHANGED crashed
           ELSE /\ UNCHANGED reg
                /\ out' = [NoOut("set", r) EXCEPT !.fault = "oob"]
                /\ crashed' \in BOOLEAN

\* STween::Chain: endTween = chain->GetTweens()
Chain(r, chain) ==
    /\ Depth(GetTweens(chain)) <= MaxChainDepth
    /\ SetLast("Chain", r, "endTween", GetTweens(chain))

AddTween(r, tween) ==
    /\ CanCall
    /\ Size(r) < MaxVec
    /\ reg' = [reg EXCEPT ![r] = AddTweenTo(@, tween)]
    /\ out' = [NoOut("AddTween", r) EXCEPT !.given = <<tween>>]
    /\ Called
    /\ UNCHANGED <<mem, crashed>>

AddTweens(r, tweens) ==
    /\ CanCall
    /\ Size(r) + Len(tweens) <= MaxVec
    /\ reg' = [reg EXCEPT ![r] = AddTweensTo(@, tweens, 1)]
    /\ out' = [NoOut("AddTweens", r) EXCEPT !.given = tweens]
    /\ Called
    /\ UNCHANGED <<mem, crashed>>


(***************************************************************************)
(* Update.  One pass over m_tweenVec in order, then the removal of the     *)
(* queued records, then AddTween of the queued chained records.  Positions *)
(* are 1-based here, the code's counter is the position minus one.  The    *)
(* loop body reads and writes only its own record, the targets and the     *)
(* queues, so the pass is the sequence of the per-record results.          *)
(***************************************************************************)
\* float timePos = tween.timeCounter / tween.duration
TimePos(tween) == FDiv(Q(tween.timeCounter), Q(tween.duration))

\* start and end by reversed, then the switch on easing
StepValue(tween) ==
    LET start == IF tween.reversed THEN tween.finalValue ELSE tween.initialCpy
        end == IF tween.reversed THEN tween.initialCpy ELSE tween.finalValue
    IN  Ease(tween.easing, TimePos(tween), start, end)

\* a variant of Completed with > in place of >=
CompletedStrictly(tween) == tween.timeCounter > tween.duration

\* if (tween.timeCounter >= tween.duration)
Completed(tween) == tween.timeCounter >= tween.duration

\* a variant of BoundaryValue that ignores tween.reversed
BoundaryValueForward(tween) == tween.finalValue

\* tween.reversed ? tween.initialCpy : tween.finalValue
BoundaryValue(tween) ==
    IF tween.reversed THEN tween.initialCpy ELSE tween.finalValue

\* a variant of WritesTarget without the byPointer test of STween.h
WritesTargetAlways(rev, tween) == TRUE

\* STween.h writes the target if (tween.byPointer), part_000 always
WritesTarget(rev, tween) == IF rev = "swap" THEN tween.byPointer ELSE TRUE

\* *tween.initialValue = v, by the record at position i
Write(i, tween, v) == [i |-> i, p |-> tween.initialValue, v |-> v]

\* the per-step write
StepWrites(rev, i, tween, value) ==
    IF WritesTarget(rev, tween) THEN <<Write(i, tween, value)>> ELSE <<>>

\* the stepCallback call
StepCalls(i, tween, value) ==
    IF tween.stepCallback # "none" THEN <<[i |-> i, v |-> value]>> ELSE <<>>

\* a variant of FinishWrites without the write on completion
FinishWritesNothing(rev, i, tween) == <<>>

\* the write of the boundary value on completion
FinishWrites(rev, i, tween) ==
    IF WritesTarget(rev, tween) THEN <<Write(i, tween, BoundaryValue(tween))>>
    ELSE <<>>

\* the finishCallback call
FinishCalls(i, tween) ==
    IF tween.finishCallback # "none" THEN <<i>> ELSE <<>>

\* a variant of Stepped that forgets tween.fromReady = false on completion
SteppedStaysActive(rev, tween, deltaTime, i) ==
    [tween EXCEPT
       !.tweenID = IF rev = "swap" THEN i - 1 ELSE @,
       !.completions = IF Completed(tween) THEN @ + 1 ELSE @,
       !.timeCounter = @ + deltaTime]

\* a variant of Stepped that forgets timeCounter += deltaTime
SteppedKeepsTime(rev, tween, deltaTime, i) ==
    [tween EXCEPT
       !.tweenID = IF rev = "swap" THEN i - 1 ELSE @,
       !.fromReady = IF Completed(tween) THEN FALSE ELSE @,
       !.completions = IF Completed(tween) THEN @ + 1 ELSE @]

\* the record after the loop body: tweenID = counter (STween.h), fromReady
\* cleared on completion, timeCounter += deltaTime
Stepped(rev, tween, deltaTime, i) ==
    [tween EXCEPT
       !.tweenID = IF rev = "swap" THEN i - 1 ELSE @,
       !.fromReady = IF Completed(tween) THEN FALSE ELSE @,
       !.completions = IF Completed(tween) THEN @ + 1 ELSE @,
       !.timeCounter = @ + deltaTime]

\* what tweensToDelete receives on completion: the counter (STween.h), or a
\* copy of the record taken before timeCounter += deltaTime (part_000)
DeleteEntry(rev, tween, i) ==
    IF rev = "swap" THEN i
    ELSE [tween EXCEPT !.fromReady = FALSE, !.completions = @ + 1]

\* the loop body for the record at position i
Visit(rev, tween, deltaTime, i) ==
    IF tween.fromReady
    THEN The({[tween |-> Stepped(rev, tween, deltaTime, i),
               writes |-> StepWrites(rev, i, tween, value)
                          \o (IF Completed(tween)
                              THEN FinishWrites(rev, i, tween) ELSE <<>>),
               steps |-> StepCalls(i, tween, value),
               finishes |-> IF Completed(tween) THEN FinishCalls(i, tween)
                            ELSE <<>>,
               tweensToAdd |-> IF Completed(tween) THEN tween.endTween ELSE <<>>,
               tweensToDelete |-> IF Completed(tween)
                                  THEN <<DeleteEntry(rev, tween, i)>> ELSE <<>>,
               completed |-> IF Completed(tween) THEN <<i>> ELSE <<>>,
               leftover |-> <<>>] : value \in {StepValue(tween)}})
    ELSE [tween |-> tween, writes |-> <<>>, steps |-> <<>>, finishes |-> <<>>,
          tweensToAdd |-> <<>>,
          tweensToDelete |-> IF rev = "swap" THEN <<i>> ELSE <<>>,
          completed |-> <<>>, leftover |-> <<i>>]

\* for (auto &tween : m_tweenVec), from position i on
RECURSIVE VisitFrom(_, _, _, _)
VisitFrom(rev, vec, deltaTime, i) ==
    IF i > Len(vec) THEN <<>>
    ELSE <<Visit(rev, vec[i], deltaTime, i)>> \o VisitFrom(rev, vec, deltaTime, i + 1)

\* the entries the visits appended to one queue or log, in order
RECURSIVE Gather(_, _, _)
Gather(visits, field, i) ==
    IF i > Len(visits) THEN <<>>
    ELSE visits[i][field] \o Gather(visits, field, i + 1)

\* the targets after the writes, in order; a write through nullptr is a fault
Written(m, writes) ==
    [p \in DOMAIN m |->
        LET ks == {k \in 1..Len(writes) : writes[k].p = p}
        IN  IF ks = {} THEN m[p]
            ELSE writes[CHOOSE k \in ks : \A k2 \in ks : k2 <= k].v]

PassOf(visits, m) ==
    The({[vec |-> [i \in 1..Len(visits) |-> visits[i].tween],
          mem |-> Written(m, writes),
          tweensToAdd |-> Gather(visits, "tweensToAdd", 1),
          tweensToDelete |-> Gather(visits, "tweensToDelete", 1),
          steps |-> Gather(visits, "steps", 1),
          finishes |-> Gather(visits, "finishes", 1),
          writes |-> writes,
          completed |-> Gather(visits, "completed", 1),
          leftover |-> Gather(visits, "leftover", 1),
          fault |-> IF \E k \in 1..Len(writes) : writes[k].p \notin DOMAIN m
                    THEN "nullwrite" ELSE "none"] :
         writes \in {Gather(visits, "writes", 1)}})

\* the loop of Update over the whole vector
Pass(rev, vec, m, deltaTime) ==
    The({PassOf(visits, m) : visits \in {VisitFrom(rev, vec, deltaTime, 1)}})

\* a variant of SwapRemove that drops the last record without moving it
SwapRemoveDropsLast(st, it) ==
    [m_tweenVec |-> SubSeq(st.m_tweenVec, 1, Len(st.m_tweenVec) - 1),
     m_lastTweenIndex |-> st.m_lastTweenIndex - 1]

\* STween.h: *oldIt = std::move(m_tweenVec.back()); pop_back(); m_lastTweenIndex--
SwapRemove(st, it) ==
    LET n == Len(st.m_tweenVec)
    IN  [m_tweenVec |-> SubSeq([st.m_tweenVec EXCEPT ![it] = st.m_tweenVec[n]],
                               1, n - 1),
         m_lastTweenIndex |-> st.m_lastTweenIndex - 1]

\* a variant of RemoveSwap that walks tweensToDelete from begin() to entry k
RECURSIVE RemoveSwapForward(_, _, _)
RemoveSwapForward(st, tweensToDelete, k) ==
    IF k = 0 THEN st
    ELSE The({SwapRemove(s, tweensToDelete[k]) :
              s \in {RemoveSwapForward(st, tweensToDelete, k - 1)}})

\* STween.h: the removal loop, from tweensToDelete.rbegin() (entry k) to rend()
RECURSIVE RemoveSwap(_, _, _)
RemoveSwap(st, tweensToDelete, k) ==
    IF k = 0 THEN st
    ELSE The({RemoveSwap(s, tweensToDelete, k - 1) :
              s \in {SwapRemove(st, tweensToDelete[k])}})

\* std::find(m_tweenVec.begin(), m_tweenVec.end(), oldTween): 0 for end()
RECURSIVE Find(_, _, _)
Find(vec, oldTween, i) ==
    IF i > Len(vec) THEN 0
    ELSE IF TweenEq(vec[i], oldTween) THEN i
    ELSE Find(vec, oldTween, i + 1)

\* a variant of EraseFound that counts m_lastTweenIndex down whether or not the
\* record is found
EraseFoundCountsAlways(st, oldTween) ==
    The({[m_tweenVec |-> IF position # 0
                         THEN SubSeq(st.m_tweenVec, 1, position - 1)
                              \o SubSeq(st.m_tweenVec, position + 1,
                                        Len(st.m_tweenVec))
                         ELSE st.m_tweenVec,
          m_lastTweenIndex |-> st.m_lastTweenIndex - 1] :
         position \in {Find(st.m_tweenVec, oldTween, 1)}})

\* part_000: erase(position) and m_lastTweenIndex-- when the record is found
EraseFound(st, oldTween) ==
    The({IF position # 0
         THEN [m_tweenVec |-> SubSeq(st.m_tweenVec, 1, position - 1)
                              \o SubSeq(st.m_tweenVec, position + 1,
                                        Len(st.m_tweenVec)),
               m_lastTweenIndex |-> st.m_lastTweenIndex - 1]
         ELSE st : position \in {Find(st.m_tweenVec, oldTween, 1)}})

\* part_000: the removal loop, tweensToDelete in order from entry k
RECURSIVE RemoveErase(_, _, _)
RemoveErase(st, tweensToDelete, k) ==
    IF k > Len(tweensToDelete) THEN st
    ELSE The({RemoveErase(s, tweensToDelete, k + 1) :
              s \in {EraseFound(st, tweensToDelete[k])}})

Remove(rev, st, tweensToDelete) ==
    IF rev = "swap" THEN RemoveSwap(st, tweensToDelete, Len(tweensToDelete))
    ELSE RemoveErase(st, tweensToDelete, 1)

\* the whole of Update on one STween object: the object afterwards and what
\* the pass produced
UpdateResult(rev, st, m, deltaTime) ==
    The({[st |-> AddTweensTo(
                   Remove(rev, [m_tweenVec |-> p.vec,
                                m_lastTweenIndex |-> st.m_lastTweenIndex],
                          p.tweensToDelete),
                   p.tweensToAdd, 1),
          pass |-> p] : p \in {Pass(rev, st.m_tweenVec, m, deltaTime)}})

Update(r, deltaTime) ==
    /\ CanCall
    /\ \E u \in {UpdateResult(revision, reg[r], mem, deltaTime)} :
        /\ Len(u.st.m_tweenVec) <= MaxVec
        /\ reg' = [reg EXCEPT ![r] = u.st]
        /\ mem' = u.pass.mem
        /\ out' = [op |-> "Update", r |-> r, size0 |-> Size(r), dt |-> deltaTime,
                   steps |-> u.pass.steps, finishes |-> u.pass.finishes,
                   writes |-> u.pass.writes, completed |-> u.pass.completed,
                   leftover |-> u.pass.leftover,
                   added |-> Len(u.pass.tweensToAdd), fault |-> u.pass.fault,
                   given |-> <<>>, chained |-> <<>>]
        /\ crashed' \in (IF u.pass.fault = "none" THEN {FALSE} ELSE BOOLEAN)
        /\ Called

(***************************************************************************)
(* Update of STween.h with callbacks that call back into the object that   *)
(* is being updated: "release" calls ReleaseTweens() on it, "add" calls    *)
(* AddTween on it.  The range-for of Update holds iterators into the       *)
(* vector's storage, taken when the loop starts, and tween is a reference  *)
(* into that storage.  clear() destroys the elements; push_back moves them *)
(* to new storage when the capacity is used up (realloc, which the caller  *)
(* cannot know).  From then on the loop reads and writes storage the       *)
(* vector no longer owns, which is undefined: the program stops, or goes   *)
(* on with what that storage held, and this is the outcome followed here.  *)
(* ps is the state of the pass: st the object, buf the storage the loop    *)
(* walks, live whether buf is still the vector's storage.                  *)
(***************************************************************************)
ReentrantCallbacks == {"release", "add"}

\* the record the "add" callback hands to AddTween
AddedByCallback ==
    [TweenData(0, TRUE, "y", Q(0), Q(10)) EXCEPT !.duration = 1]

\* a callback is invoked: what it does to the object under Update
Invoke(ps, callback, realloc) ==
    IF callback = "release"
    THEN [ps EXCEPT !.st = Released(ps.st), !.live = FALSE]
    ELSE IF callback = "add"
    THEN The({[ps EXCEPT !.st = st2,
                         !.buf = IF ps.live /\ ~realloc THEN st2.m_tweenVec
                                 ELSE ps.buf,
                         !.live = ps.live /\ ~realloc] :
              st2 \in {AddTweenTo(ps.st, AddedByCallback)}})
    ELSE ps

\* tween.<field> = value through the loop's reference to the element at
\* position i
Assign(ps, i, field, value) ==
    IF ps.live
    THEN [ps EXCEPT !.buf[i][field] = value,
                    !.st.m_tweenVec[i][field] = value]
    ELSE [ps EXCEPT !.buf[i][field] = value, !.fault = "dangling"]

\* the completion branch for the element at position i
ReentrantFinish(ps, i, realloc) ==
    LET tween == ps.buf[i]
    IN  The({Invoke([p2 EXCEPT
                       !.writes = @ \o FinishWrites("swap", i, tween),
                       !.tweensToDelete = Append(@, i),
                       !.completed = Append(@, i),
                       !.finishes = @ \o FinishCalls(i, tween),
                       !.tweensToAdd = @ \o tween.endTween],
                    tween.finishCallback, realloc) :
             p2 \in {Assign(Assign(ps, i, "fromReady", FALSE),
                            i, "completions", tween.completions + 1)}})

\* the loop body for the element at position i
ReentrantVisit(ps, i, deltaTime, realloc) ==
    LET tween == ps.buf[i]
        read == IF ps.live THEN ps ELSE [ps EXCEPT !.fault = "dangling"]
    IN  IF tween.fromReady
        THEN The({Assign(p3, i, "timeCounter", tween.timeCounter + deltaTime) :
                  p3 \in {IF Completed(tween)
                          THEN ReentrantFinish(p2, i, realloc) ELSE p2 :
                          p2 \in {Assign(p1, i, "tweenID", i - 1) :
                                  p1 \in {Invoke(
                                     [read EXCEPT
                                        !.writes = @ \o StepWrites("swap", i, tween,
                                                                   StepValue(tween)),
                                        !.steps = @ \o StepCalls(i, tween,
                                                                 StepValue(tween))],
                                     tween.stepCallback, realloc)}}}})
        ELSE [read EXCEPT !.tweensToDelete = Append(@, i),
                          !.leftover = Append(@, i)]

\* the loop over the n elements the vector had when the loop started
RECURSIVE ReentrantPass(_, _, _, _, _)
ReentrantPass(ps, i, n, deltaTime, realloc) ==
    IF i > n THEN ps
    ELSE The({ReentrantPass(p, i + 1, n, deltaTime, realloc) :
              p \in {ReentrantVisit(ps, i, deltaTime, realloc)}})

\* the removal loop, from entry k of tweensToDelete down: begin() + *it may
\* now lie outside the vector
RECURSIVE ReentrantRemove(_, _)
ReentrantRemove(ps, k) ==
    IF k = 0 THEN ps
    ELSE IF ps.tweensToDelete[k] > Len(ps.st.m_tweenVec)
    THEN [ps EXCEPT !.fault = "oob",
                    !.st.m_lastTweenIndex = @ - k]
    ELSE The({ReentrantRemove(p, k - 1) :
              p \in {[ps EXCEPT !.st = SwapRemove(@, ps.tweensToDelete[k])]}})

\* the whole of Update under re-entrant callbacks
ReentrantResult(st, m, deltaTime, realloc) ==
    The({[p EXCEPT !.st = AddTweensTo(@, p.tweensToAdd, 1),
                   !.m = Written(m, p.writes)] :
         p \in {ReentrantRemove(q, Len(q.tweensToDelete)) :
                q \in {ReentrantPass(
                         [st |-> st, buf |-> st.m_tweenVec, live |-> TRUE,
                          m |-> m, tweensToAdd |-> <<>>, tweensToDelete |-> <<>>,
                          steps |-> <<>>, finishes |-> <<>>, writes |-> <<>>,
                          completed |-> <<>>, leftover |-> <<>>, fault |-> "none"],
                         1, Len(st.m_tweenVec), deltaTime, realloc)}}})

UpdateReentrant(r, deltaTime, realloc) ==
    /\ CanCall
    /\ \E u \in {ReentrantResult(reg[r], mem, deltaTime, realloc)} :
        /\ Len(u.st.m_tweenVec) <= MaxVec
        /\ reg' = [reg EXCEPT ![r] = u.st]
        /\ mem' = u.m
        /\ out' = [op |-> "Update", r |-> r, size0 |-> Size(r), dt |-> deltaTime,
                   steps |-> u.steps, finishes |-> u.finishes,
                   writes |-> u.writes, completed |-> u.completed,
                   leftover |-> u.leftover,
                   added |-> Len(u.tweensToAdd), fault |-> u.fault,
                   given |-> <<>>, chained |-> <<>>]
        /\ crashed' \in (IF u.fault = "none" THEN {FALSE} ELSE BOOLEAN)
        /\ Called

\* Update in a program that goes on calling it: the call is not counted
UpdateRepeated(r, deltaTime) ==
    /\ ~crashed
    /\ \E u \in {UpdateResult(revision, reg[r], mem, deltaTime)} :
        /\ Len(u.st.m_tweenVec) <= MaxVec
        /\ reg' = [reg EXCEPT ![r] = u.st]
        /\ mem' = u.pass.mem
        /\ out' = [op |-> "Update", r |-> r, size0 |-> Size(r), dt |-> deltaTime,
                   steps |-> u.pass.steps, finishes |-> u.pass.finishes,
                   writes |-> u.pass.writes, completed |-> u.pass.completed,
                   leftover |-> u.pass.leftover,
                   added |-> Len(u.pass.tweensToAdd), fault |-> u.pass.fault,
                   given |-> <<>>, chained |-> <<>>]
        /\ crashed' \in (IF u.pass.fault = "none" THEN {FALSE} ELSE BOOLEAN)
    /\ UNCHANGED <<nops, revision, track>>

Next ==
    \/ \E r \in Registries : \E t \in UserTweens : AddTween(r, t)
    \/ \E r \in Mains :
           \/ ReleaseTweens(r)
           \/ \E p \in FromTargets : FromPtr(r, p)
           \/ \E v \in StartInputs : FromVal(r, v)
           \/ \E v \in ValueInputs : To(r, v)
           \/ \E sec \in Durations : Time(r, sec)
           \/ \E cb \in CallbackInputs : OnFinish(r, cb)
           \/ \E cb \in CallbackInputs : OnStep(r, cb)
           \/ \E other \in Registries \ {r} : Chain(r, other)
           \/ Reversed(r, TRUE)
           \/ \E e \in EasingInputs : Easing(r, e)
           \/ \E other \in Registries \ {r} : AddTweens(r, GetTweens(other))
           \/ \E dt \in DeltaTimes : Update(r, dt)

\* part_000 has no From by value
NextErase ==
    \/ \E r \in Registries : \E t \in UserTweens : AddTween(r, t)
    \/ \E r \in Mains :
           \/ ReleaseTweens(r)
           \/ \E p \in FromTargets : FromPtr(r, p)
           \/ \E v \in ValueInputs : To(r, v)
           \/ \E sec \in Durations : Time(r, sec)
           \/ \E cb \in CallbackInputs : OnFinish(r, cb)
           \/ \E cb \in CallbackInputs : OnStep(r, cb)
           \/ \E other \in Registries \ {r} : Chain(r, other)
           \/ Reversed(r, TRUE)
           \/ \E e \in EasingInputs : Easing(r, e)
           \/ \E other \in Registries \ {r} : AddTweens(r, GetTweens(other))
           \/ \E dt \in DeltaTimes : Update(r, dt)

\* two registries under the same calls, one chaining the other
NextChain ==
    \E r \in Registries :
       \/ ReleaseTweens(r)
       \/ \E p \in FromTargets : FromPtr(r, p)
       \/ \E v \in ValueInputs : To(r, v)
       \/ \E sec \in Durations : Time(r, sec)
       \/ \E t \in UserTweens : AddTween(r, t)
       \/ \E other \in Registries \ {r} : Chain(r, other)
       \/ \E dt \in DeltaTimes : Update(r, dt)

\* one registry whose callbacks call back into it
NextReentrant ==
    \E r \in Mains :
       \/ \E t \in UserTweens : AddTween(r, t)
       \/ \E p \in FromTargets : FromPtr(r, p)
       \/ \E sec \in Durations : Time(r, sec)
       \/ \E cb \in ReentrantCallbacks : OnFinish(r, cb)
       \/ \E cb \in ReentrantCallbacks : OnStep(r, cb)
       \/ \E dt \in DeltaTimes : \E realloc \in BOOLEAN :
             UpdateReentrant(r, dt, realloc)

\* the configured record under Update alone
NextEasing == \E r \in Mains : \E dt \in DeltaTimes : Update(r, dt)

\* the lists of records a caller may have handed to AddTween
TweenLists == UNION {[1..n -> UserTweens] : n \in 0..MaxGiven}

\* a program built with src/STween.h with three STween objects, of which the
\* two to be chained have been filled by AddTween
InitReplace ==
    /\ revision = "swap"
    /\ track = FALSE
    /\ nops = 0
    /\ crashed = FALSE
    /\ mem = [p \in Targets |-> Q(0)]
    /\ \E held \in [Chained -> TweenLists] :
          reg = [r \in Mains \cup Chained |->
                   IF r \in Chained THEN AddTweensTo(NewSTween, held[r], 1)
                   ELSE NewSTween]
    /\ out = [op |-> "new", r |-> "a", size0 |-> 0, dt |-> 0, steps |-> <<>>,
              finishes |-> <<>>, writes |-> <<>>, completed |-> <<>>,
              leftover |-> <<>>, added |-> 0, fault |-> "none",
              given |-> <<>>, chained |-> <<>>]

\* the records of a registry that is left to Update: the record that
\* From(&x).To(10).Time(2).OnFinish(cb) makes, and the records a caller builds
DrainBase ==
    {[TweenData(0, TRUE, "x", Q(0), Q(10)) EXCEPT
         !.duration = 2, !.finishCallback = "cb"]} \cup UserTweens

\* the same records after Chain calls on registries that hold one such
\* record, nested at most d deep; the caller chains to the record From made
\* and to the record built inactive
RECURSIVE DrainTweens(_)
DrainTweens(d) ==
    IF d = 0 THEN DrainBase
    ELSE DrainBase \cup
         {[t EXCEPT !.endTween = AddTweenTo(NewSTween, c).m_tweenVec] :
          t \in {b \in DrainBase : b.duration = 2 \/ ~b.fromReady},
          c \in DrainTweens(d - 1)}

DrainLists ==
    UNION {[1..n -> DrainTweens(MaxChainDepth)] : n \in 0..(MaxGiven + 1)}

\* a program built with src/STween.h whose registry has been filled and
\* configured, and that makes no call but Update from now on
InitDrain ==
    /\ revision = "swap"
    /\ track = FALSE
    /\ nops = 0
    /\ crashed = FALSE
    /\ mem = [p \in Targets |-> Q(0)]
    /\ \E held \in DrainLists :
          reg = [r \in Registries |->
                   IF r \in Mains THEN AddTweensTo(NewSTween, held, 1)
                   ELSE NewSTween]
    /\ out = [op |-> "new", r |-> "a", size0 |-> 0, dt |-> 0, steps |-> <<>>,
              finishes |-> <<>>, writes |-> <<>>, completed |-> <<>>,
              leftover |-> <<>>, added |-> 0, fault |-> "none",
              given |-> <<>>, chained |-> <<>>]

\* Update called again and again with deltaTime > 0
NextDrain ==
    \E r \in Mains : \E dt \in DeltaTimes \ {0} : UpdateRepeated(r, dt)

\* one registry that chains now one, now the other of two filled registries
NextReplace ==
    \E r \in Mains :
       \/ \E p \in FromTargets : FromPtr(r, p)
       \/ \E sec \in Durations : Time(r, sec)
       \/ \E other \in Chained : Chain(r, other)
       \/ \E dt \in DeltaTimes : Update(r, dt)

Spec == Init /\ [][Next]_vars

SpecErase == InitErase /\ [][NextErase]_vars

SpecChain == Init /\ [][NextChain]_vars

SpecReentrant == Init /\ [][NextReentrant]_vars

SpecOrder == InitOrder /\ [][Next]_vars

SpecBoth == InitBoth /\ [][Next]_vars

SpecEasing == InitEasing /\ [][NextEasing]_vars

SpecReplace == InitReplace /\ [][NextReplace]_vars

\* the caller never stops calling Update
SpecDrain == InitDrain /\ [][NextDrain]_vars /\ WF_vars(NextDrain)


(***************************************************************************)
(* Vocabulary of the properties.  A step is an Update step when the call   *)
(* just made was Update; the unprimed state is then the state the call     *)
(* started from, and out' holds what the call produced, by the positions   *)
(* the records had when it started.                                        *)
(***************************************************************************)
Vec(r) == reg[r].m_tweenVec

UpdateStep == out'.op = "Update" /\ nops' # nops

\* the records Update found when it started, and what it left
Pre == reg[out'.r].m_tweenVec

Post == reg'[out'.r].m_tweenVec

\* the part of Post before the records appended by chain activation
Kept == SubSeq(Post, 1, Len(Post) - out'.added)

Appended == SubSeq(Post, Len(Post) - out'.added + 1, Len(Post))

WritesBy(o, i) == SelectSeq(o.writes, LAMBDA w : w.i = i)

StepsBy(o, i) == SelectSeq(o.steps, LAMBDA c : c.i = i)

Last(seq) == seq[Len(seq)]

\* the completion test succeeds on the record at position i of Pre
Completing(i) == Pre[i].fromReady /\ Pre[i].timeCounter >= Pre[i].duration

Surviving(i) == Pre[i].fromReady /\ Pre[i].timeCounter < Pre[i].duration

NoID(tween) == [tween EXCEPT !.tweenID = 0]

\* what one Update with deltaTime dt may change of a record it holds: an
\* active record gets dt more elapsed time and is inactive once completed,
\* an inactive record is left as it is
Evolved(tween, dt) ==
    IF tween.fromReady
    THEN [tween EXCEPT
            !.timeCounter = @ + dt,
            !.fromReady = tween.timeCounter < tween.duration,
            !.completions = IF tween.timeCounter >= tween.duration THEN @ + 1
                            ELSE @]
    ELSE tween

CountIn(seq, x) == Cardinality({i \in DOMAIN seq : seq[i] = x})

SameBag(s, t) ==
    /\ Len(s) = Len(t)
    /\ \A i \in DOMAIN s : CountIn(s, s[i]) = CountIn(t, s[i])

\* the positions of 1..n that satisfy Test, in order
RECURSIVE Positions(_, _, _)
Positions(Test(_), i, n) ==
    IF i > n THEN <<>>
    ELSE (IF Test(i) THEN <<i>> ELSE <<>>) \o Positions(Test, i + 1, n)

\* the survivors of Pre as Update leaves them, identifiers aside
Survivors ==
    LET ps == Positions(Surviving, 1, Len(Pre))
    IN  [k \in 1..Len(ps) |-> NoID(Evolved(Pre[ps[k]], out'.dt))]

WithoutIDs(seq) == [k \in 1..Len(seq) |-> NoID(seq[k])]

\* the chain lists of the records completing in this pass, in pass order
RECURSIVE ChainsFrom(_)
ChainsFrom(i) ==
    IF i > Len(Pre) THEN <<>>
    ELSE (IF Completing(i) THEN Pre[i].endTween ELSE <<>>) \o ChainsFrom(i + 1)

\* the eased value of a Linear record at elapsed time t
LinearAt(tween, t) ==
    LET start == IF tween.reversed THEN tween.finalValue ELSE tween.initialCpy
        end == IF tween.reversed THEN tween.initialCpy ELSE tween.finalValue
    IN  FAdd(FMul(FSub(end, start), FDiv(Q(t), Q(tween.duration))), start)

(***************************************************************************)
(* C1.  A record with duration D > 0 whose Update calls sum to exactly D   *)
(* has, after the call on which the elapsed time first reaches D, the      *)
(* boundary value (finalValue, or the start copy if reversed) as the value *)
(* last written to its target.                                             *)
(***************************************************************************)
C1_ExactEndWhenElapsedReachesDuration ==
    [][UpdateStep =>
         \A i \in 1..Len(Pre) :
            ( /\ Pre[i].fromReady
              /\ Pre[i].duration > 0
              /\ Pre[i].timeCounter < Pre[i].duration
              /\ Pre[i].timeCounter + out'.dt = Pre[i].duration
              /\ WritesTarget(revision, Pre[i]) )
            => /\ WritesBy(out', i) # <<>>
               /\ Last(WritesBy(out', i)).v = BoundaryValue(Pre[i])]_vars

(***************************************************************************)
(* C2.  After Update(dt) on an active Linear record with duration D > 0    *)
(* that the registry still holds, the value written to the target and the  *)
(* value passed to onStep are the eased value at the elapsed time that     *)
(* includes this call's dt.                                                *)
(***************************************************************************)
C2_StepValueIncludesThisDelta ==
    [][UpdateStep =>
         \A i \in 1..Len(Pre) :
            ( /\ Surviving(i)
              /\ Pre[i].duration > 0
              /\ Pre[i].easing = "Linear" )
            => /\ WritesTarget(revision, Pre[i]) =>
                    /\ WritesBy(out', i) # <<>>
                    /\ Last(WritesBy(out', i)).v
                         = LinearAt(Pre[i], Pre[i].timeCounter + out'.dt)
               /\ Pre[i].stepCallback # "none" =>
                    /\ StepsBy(out', i) # <<>>
                    /\ Last(StepsBy(out', i)).v
                         = LinearAt(Pre[i], Pre[i].timeCounter + out'.dt)]_vars


\* every record of Pre as Update may leave it, identifiers aside
EvolvedAll == [i \in 1..Len(Pre) |-> NoID(Evolved(Pre[i], out'.dt))]

CallsFinish(i) == Completing(i) /\ Pre[i].finishCallback # "none"

Range(seq) == {seq[i] : i \in DOMAIN seq}

(***************************************************************************)
(* C3.  In both revisions onFinish is invoked exactly once per record, in  *)
(* the Update call in which its completion test succeeds: the calls of one *)
(* Update are those of the active records that complete in it, a record    *)
(* that completed is inactive from then on, and an inactive record is not  *)
(* evaluated again: no write, no onStep, no onFinish, no elapsed time.     *)
(***************************************************************************)
C3_FinishInvokedExactlyOnce ==
    [][UpdateStep =>
         /\ out'.finishes = Positions(CallsFinish, 1, Len(Pre))
         /\ \A i \in 1..Len(Pre) :
               ~Pre[i].fromReady =>
                  /\ WritesBy(out', i) = <<>>
                  /\ StepsBy(out', i) = <<>>
                  /\ i \notin Range(out'.finishes)
         /\ \A k \in 1..Len(Kept) :
               CountIn(WithoutIDs(Kept), NoID(Kept[k]))
                  <= CountIn(EvolvedAll, NoID(Kept[k]))
         /\ \A k \in 1..Len(Post) :
               /\ Post[k].completions <= 1
               /\ Post[k].completions = 1 => ~Post[k].fromReady]_vars

\* an Update of the erase revision has skipped a record whose onFinish was
\* invoked by an earlier Update
C3_Witness ==
    /\ revision = "erase"
    /\ out.op = "Update"
    /\ out.finishes = <<>>
    /\ out.completed = <<>>
    /\ \E i \in Range(out.leftover) :
          /\ Vec(out.r)[i].completions = 1
          /\ Vec(out.r)[i].finishCallback # "none"

(***************************************************************************)
(* C4.  In the swap-with-last revision, when Update returns, the records   *)
(* it found are reduced to those that were active and did not complete,    *)
(* each advanced by deltaTime; a record that completed or was already      *)
(* inactive is gone, and an inactive record can only be among the chained  *)
(* copies appended by this call.                                           *)
(***************************************************************************)
C4_SwapRevisionLeavesNoInactive ==
    [][(UpdateStep /\ revision = "swap") =>
         /\ Len(Post) >= out'.added
         /\ SameBag(WithoutIDs(Kept), Survivors)
         /\ \A k \in 1..Len(Kept) : Kept[k].fromReady
         /\ \A k \in 1..Len(Post) : ~Post[k].fromReady => k > Len(Kept)]_vars

\* one Update of the swap revision has removed a completed and an inactive
\* record and kept a survivor
C4_Witness ==
    /\ revision = "swap"
    /\ out.op = "Update"
    /\ out.completed # <<>>
    /\ out.leftover # <<>>
    /\ Len(Vec(out.r)) - out.added >= 1
    /\ out.fault = "none"

(***************************************************************************)
(* C5.  In the erase revision every record that completes during an Update *)
(* is found by the equality search and erased before Update returns, for   *)
(* every deltaTime >= 0: the records left are the others, in order.        *)
(***************************************************************************)
C5_EraseRevisionRemovesCompleted ==
    [][(UpdateStep /\ revision = "erase") =>
         LET stay(i) == ~Completing(i)
             ps == Positions(stay, 1, Len(Pre))
         IN  /\ Len(Post) >= out'.added
             /\ Kept = [k \in 1..Len(ps) |-> Evolved(Pre[ps[k]], out'.dt)]]_vars


\* two records that agree on everything a copy carries over, the active flag
\* aside
SameTween(a, b) ==
    [a EXCEPT !.tweenID = 0, !.completions = 0, !.born = 0, !.fromReady = TRUE]
      = [b EXCEPT !.tweenID = 0, !.completions = 0, !.born = 0,
                  !.fromReady = TRUE]

\* what C6 says of an Update step, but for the active flag of the appended
\* records: they are the chain lists of the completing records, in order,
\* behind the records Update found, untouched by this pass, which evaluates
\* each active record it found and no other
ChainActivation ==
    LET chains == ChainsFrom(1)
    IN  /\ out'.added = Len(chains)
        /\ Len(Post) >= Len(chains)
        /\ \A k \in 1..Len(chains) : SameTween(Appended[k], chains[k])
        /\ \A k \in 1..Len(Kept) :
              CountIn(WithoutIDs(Kept), NoID(Kept[k]))
                 <= CountIn(EvolvedAll, NoID(Kept[k]))
        /\ \A k \in 1..Len(out'.writes) : out'.writes[k].i \in 1..Len(Pre)
        /\ \A k \in 1..Len(out'.steps) : out'.steps[k].i \in 1..Len(Pre)
        /\ \A i \in 1..Len(Pre) :
              Pre[i].fromReady =>
                 /\ WritesTarget(revision, Pre[i]) => WritesBy(out', i) # <<>>
                 /\ Pre[i].stepCallback # "none" => StepsBy(out', i) # <<>>

C7_TweenIDsPairwiseDistinct ==
    \A r \in Registries :
       \A i, j \in 1..Len(Vec(r)) :
          i # j => Vec(r)[i].tweenID # Vec(r)[j].tweenID

(***************************************************************************)
(* C8.  After ReleaseTweens, from any reachable state, the registry is in  *)
(* the state of a newly constructed one: no records and the same last      *)
(* index, which is all the state the calls that follow can depend on.      *)
(***************************************************************************)
C8_ReleaseGivesNewRegistry ==
    out.op = "ReleaseTweens" =>
       /\ reg[out.r] = NewSTween
       /\ GetTweens(out.r) = <<>>

\* ReleaseTweens has been called on a registry that held records
C8_Witness == out.op = "ReleaseTweens" /\ out.size0 > 0 /\ nops > 1

(***************************************************************************)
(* C9.  In the Update in which a record with duration > 0 completes, the   *)
(* boundary value is the last value its target receives and the last value *)
(* onStep receives, also when the elapsed time has passed the duration.    *)
(***************************************************************************)
C9_BoundaryValueToTargetAndOnStep ==
    [][UpdateStep =>
         \A i \in 1..Len(Pre) :
            (Completing(i) /\ Pre[i].duration > 0) =>
               /\ WritesTarget(revision, Pre[i]) =>
                     /\ WritesBy(out', i) # <<>>
                     /\ Last(WritesBy(out', i)).v = BoundaryValue(Pre[i])
               /\ Pre[i].stepCallback # "none" =>
                     /\ StepsBy(out', i) # <<>>
                     /\ Last(StepsBy(out', i)).v = BoundaryValue(Pre[i])]_vars

(***************************************************************************)
(* C10.  In the revision with From by value, Update never writes through   *)
(* the target pointer of a by-value record, on a step or on completion:    *)
(* such a record reaches the outside through onStep and onFinish only, and *)
(* a target changes only by an active by-pointer record that refers to it. *)
(***************************************************************************)
C10_ByValueRecordsNeverWrite ==
    [][(UpdateStep /\ revision = "swap") =>
         /\ out'.fault # "nullwrite"
         /\ \A i \in 1..Len(Pre) :
               ~Pre[i].byPointer => WritesBy(out', i) = <<>>
         /\ \A p \in DOMAIN mem :
               mem'[p] # mem[p] =>
                  \E i \in 1..Len(Pre) :
                     /\ Pre[i].fromReady
                     /\ Pre[i].byPointer
                     /\ Pre[i].initialValue = p]_vars

\* a by-value record with onStep and onFinish has been stepped and has
\* completed in an Update that wrote nothing
C10_Witness ==
    /\ revision = "swap"
    /\ out.op = "Update"
    /\ out.completed # <<>>
    /\ out.steps # <<>>
    /\ out.finishes # <<>>
    /\ out.writes = <<>>


\* the non-reversed record with the start and the end of tween exchanged
Mirror(tween) ==
    [tween EXCEPT !.reversed = FALSE,
                  !.initialCpy = tween.finalValue,
                  !.finalValue = tween.initialCpy]

(***************************************************************************)
(* C11.  A reversed record with start S and end E gives, Update by Update, *)
(* the outputs of the non-reversed record with start E and end S under the *)
(* same easing, duration and deltas: the same stepped values to the target *)
(* and to onStep, the same value on completion, completion in the same     *)
(* Update, and afterwards they are again each other's mirror.              *)
(***************************************************************************)
C11_ReversedIsMirrorOfSwappedEnds ==
    [][UpdateStep =>
         \A i \in 1..Len(Pre) :
            (Pre[i].fromReady /\ Pre[i].reversed) =>
               LET v == Visit(revision, Mirror(Pre[i]), out'.dt, i)
               IN  /\ WritesBy(out', i) = v.writes
                   /\ StepsBy(out', i) = v.steps
                   /\ (i \in Range(out'.completed)) = (v.completed # <<>>)
                   /\ (i \in Range(out'.finishes)) = (v.finishes # <<>>)
                   /\ Mirror(Stepped(revision, Pre[i], out'.dt, i)) = v.tween]_vars

\* a reversed record with different ends and a duration > 0 has been stepped
\* with onStep and stays for further Updates
C11_Witness ==
    /\ out.op = "Update"
    /\ out.steps # <<>>
    /\ out.writes # <<>>
    /\ out.size0 = 1
    /\ Len(Vec(out.r)) = 1
    /\ LET tween == Vec(out.r)[1]
       IN  /\ tween.reversed
           /\ tween.fromReady
           /\ tween.duration > 0
           /\ tween.timeCounter > 0
           /\ tween.initialCpy # tween.finalValue


\* a call has been made; out'.r is the registry it was made on
CallStep == nops' # nops

\* the chain lists stored in the records of registry q, by position
ChainLists(st) == [i \in 1..Len(st.m_tweenVec) |-> st.m_tweenVec[i].endTween]

(***************************************************************************)
(* C12.  Chain stores a snapshot.  A call on one registry (From, To, Time,  *)
(* AddTween, Update, ReleaseTweens, Chain) leaves every other registry as  *)
(* it was, its records and the chain lists stored in them included; Chain  *)
(* stores in the last record the records the chained registry holds at     *)
(* that moment, field by field, and leaves the chained registry's          *)
(* collection and index unchanged; and the records an Update activates are *)
(* the ones stored in the completing record's list.                        *)
(***************************************************************************)
C12_ChainCapturesSnapshot ==
    [][CallStep =>
         /\ \A q \in Registries \ {out'.r} :
               /\ reg'[q] = reg[q]
               /\ ChainLists(reg'[q]) = ChainLists(reg[q])
         /\ (out'.op = "set" /\ ChainLists(reg'[out'.r]) # ChainLists(reg[out'.r])) =>
               \E q \in Registries \ {out'.r} :
                  /\ Last(ChainLists(reg'[out'.r])) = reg[q].m_tweenVec
                  /\ reg'[q].m_tweenVec = reg[q].m_tweenVec
                  /\ reg'[q].m_lastTweenIndex = reg[q].m_lastTweenIndex
         /\ out'.op = "Update" =>
               /\ out'.added = Len(ChainsFrom(1))
               /\ \A k \in 1..Len(Appended) :
                     /\ SameTween(Appended[k], ChainsFrom(1)[k])
                     /\ Appended[k].fromReady = ChainsFrom(1)[k].fromReady]_vars

\* an Update of one registry has activated a record captured from another
\* registry, and that registry, changed by calls since the capture, now holds
\* a record that differs from the activated one
C12_Witness ==
    /\ out.op = "Update"
    /\ out.added = 1
    /\ \E q \in Registries \ {out.r} :
          /\ Len(Vec(q)) = 1
          /\ Len(Vec(out.r)) >= 1
          /\ ~SameTween(Vec(q)[1], Last(Vec(out.r)))


\* the positions of registry r that hold its most recently pushed record
Newest(st) ==
    {i \in 1..Len(st.m_tweenVec) :
        \A j \in 1..Len(st.m_tweenVec) :
           st.m_tweenVec[j].born <= st.m_tweenVec[i].born}

\* a configuration call has been made on a registry that held a record
ConfigStep == CallStep /\ out'.op = "set" /\ Len(reg[out'.r].m_tweenVec) >= 1

(***************************************************************************)
(* C13.  A configuration call (To, Time, OnFinish, OnStep, Chain,          *)
(* Reversed, Easing) on a registry that holds a record applies to the most *)
(* recently created of the records it holds, also after an Update has      *)
(* removed other records: no other record is changed by the call, and      *)
(* the record at the last index, the one the call assigns to, is that one. *)
(***************************************************************************)
C13_ConfigAppliesToNewestRecord ==
    [][ConfigStep =>
         LET st == reg[out'.r]
         IN  /\ st.m_lastTweenIndex + 1 \in Newest(st)
             /\ \A i \in 1..Len(st.m_tweenVec) :
                   reg'[out'.r].m_tweenVec[i] # st.m_tweenVec[i]
                      => i \in Newest(st)]_vars


\* the fields that To, Time, OnFinish, OnStep, Chain, Reversed and Easing
\* assign
ConfigFields ==
    {"finalValue", "duration", "finishCallback", "stepCallback", "endTween",
     "reversed", "easing"}

(***************************************************************************)
(* C14.  A configuration call on a registry that holds a record assigns    *)
(* one field of the record at the last index: every other field of that    *)
(* record, every other record, the length of the collection, the last      *)
(* index, the other registries and the targets are as before the call.     *)
(***************************************************************************)
C14_ConfigChangesOneFieldOfLastRecord ==
    [][ConfigStep =>
         LET st == reg[out'.r]
             st2 == reg'[out'.r]
             i == st.m_lastTweenIndex + 1
         IN  /\ out'.fault = "none"
             /\ i \in 1..Len(st.m_tweenVec)
             /\ Len(st2.m_tweenVec) = Len(st.m_tweenVec)
             /\ st2.m_lastTweenIndex = st.m_lastTweenIndex
             /\ \A j \in 1..Len(st.m_tweenVec) :
                   j # i => st2.m_tweenVec[j] = st.m_tweenVec[j]
             /\ \E f \in ConfigFields :
                   \A g \in DOMAIN st.m_tweenVec[i] \ {f} :
                      st2.m_tweenVec[i][g] = st.m_tweenVec[i][g]
             /\ \A q \in Registries \ {out'.r} : reg'[q] = reg[q]
             /\ mem' = mem
             /\ crashed' = crashed]_vars

\* a configuration call was made on a registry of two or more records, the
\* last of which now differs from the first in a field only such a call sets
C14_Witness ==
    /\ out.op = "set"
    /\ out.fault = "none"
    /\ out.size0 >= 2
    /\ Len(Vec(out.r)) = out.size0
    /\ Vec(out.r)[out.size0].reversed
    /\ ~Vec(out.r)[1].reversed


(***************************************************************************)
(* C15.  A configuration call on a registry that holds no record (before   *)
(* any From, after ReleaseTweens, after Update removed every record) is    *)
(* reported as an error and changes nothing: the collection is not         *)
(* accessed at an out-of-range index, the registries and the targets are   *)
(* as before, and the program goes on.                                     *)
(***************************************************************************)
C15_ConfigOnEmptyRegistryIsReported ==
    [][(CallStep /\ out'.op = "set" /\ Len(reg[out'.r].m_tweenVec) = 0) =>
         /\ out'.fault = "reported"
         /\ out'.fault # "oob"
         /\ reg' = reg
         /\ mem' = mem
         /\ ~crashed']_vars


\* the call has been AddTween or AddTweens
ImportStep == CallStep /\ out'.op \in {"AddTween", "AddTweens"}

\* the registry after the call holds the records it held, unchanged, and
\* behind them the given ones, in order, each with its fields but the
\* identifier and the active flag
Imported(given) ==
    LET pre == reg[out'.r].m_tweenVec
        post == reg'[out'.r].m_tweenVec
    IN  /\ Len(post) = Len(pre) + Len(given)
        /\ SubSeq(post, 1, Len(pre)) = pre
        /\ \A k \in 1..Len(given) : SameTween(post[Len(pre) + k], given[k])

ReentrantStep ==
    /\ UpdateStep
    /\ \E i \in 1..Len(Pre) :
          /\ Pre[i].fromReady
          /\ \/ Pre[i].stepCallback \in ReentrantCallbacks
             \/ Completing(i) /\ Pre[i].finishCallback \in ReentrantCallbacks

(***************************************************************************)
(* C17.  Update is safe when an onStep or onFinish callback it invokes     *)
(* adds a record to the registry under Update or resets it: the pass       *)
(* touches no storage the vector has given up, every index queued for      *)
(* removal is within the vector and is that of a record that completed in  *)
(* this pass or was inactive, no active record that did not complete is    *)
(* lost, and the last index is size - 1 when Update returns.               *)
(***************************************************************************)
C17_UpdateSafeUnderReentrantCallbacks ==
    [][ReentrantStep =>
         /\ out'.fault = "none"
         /\ ~crashed'
         /\ \A k \in Range(out'.completed) : k \in 1..Len(Pre) /\ Completing(k)
         /\ \A i \in 1..Len(Pre) :
               Surviving(i) =>
                  \E j \in 1..Len(Post) :
                     NoID(Post[j]) = NoID(Evolved(Pre[i], out'.dt))
         /\ reg'[out'.r].m_lastTweenIndex = Len(Post) - 1]_vars


(***************************************************************************)
(* C18.  Completion is tested on the elapsed time before this call's       *)
(* deltaTime is added.  An active record with duration D > 0 completes in  *)
(* an Update exactly when its elapsed time, the sum of the deltas of the   *)
(* Updates before this one, is at least D; otherwise it stays active with  *)
(* this deltaTime added, also when that brings the elapsed time to D or    *)
(* beyond, so it completes in Update k + 1 for the least k whose deltas    *)
(* sum to D.                                                               *)
(***************************************************************************)
C18_CompletionTestedBeforeIncrement ==
    [][UpdateStep =>
         \A i \in 1..Len(Pre) :
            (Pre[i].fromReady /\ Pre[i].duration > 0) =>
               /\ (i \in Range(out'.completed))
                     = (Pre[i].timeCounter >= Pre[i].duration)
               /\ Pre[i].timeCounter < Pre[i].duration =>
                     \E j \in 1..Len(Kept) :
                        /\ NoID(Kept[j])
                             = NoID([Pre[i] EXCEPT !.timeCounter = @ + out'.dt])
                        /\ Kept[j].fromReady
                        /\ Kept[j].completions = 0]_vars

\* an Update whose deltaTime brought a record's elapsed time up to its
\* duration > 0 has returned, and the record has not completed
C18_Witness ==
    /\ out.op = "Update"
    /\ out.completed = <<>>
    /\ out.added = 0
    /\ out.dt > 0
    /\ \E i \in 1..Len(Vec(out.r)) :
          LET tween == Vec(out.r)[i]
          IN  /\ tween.fromReady
              /\ tween.completions = 0
              /\ tween.duration > 0
              /\ tween.timeCounter >= tween.duration
              /\ tween.timeCounter - out.dt < tween.duration


\* record b is record a after an Update with deltaTime dt that kept it: all
\* fields as they were but the elapsed time, dt more, and the identifier
Advanced(a, b, dt) ==
    /\ b.duration = a.duration
    /\ b.initialCpy = a.initialCpy
    /\ b.finalValue = a.finalValue
    /\ b.reversed = a.reversed
    /\ b.easing = a.easing
    /\ b.byPointer = a.byPointer
    /\ b.initialValue = a.initialValue
    /\ b.finishCallback = a.finishCallback
    /\ b.stepCallback = a.stepCallback
    /\ b.endTween = a.endTween
    /\ b.fromReady = a.fromReady
    /\ b.born = a.born
    /\ b.timeCounter = a.timeCounter + dt

\* the one-to-one maps of 1..n onto itself
Bijections(n) ==
    {f \in [1..n -> 1..n] : \A i, j \in 1..n : f[i] = f[j] => i = j}

(***************************************************************************)
(* C19.  Update(dt) with dt >= 0 removes exactly the records that          *)
(* completed in this pass or were inactive already.  Every other record    *)
(* is in the collection once afterwards, wherever the removed records      *)
(* were and however many: its duration, start copy, finalValue, reversed,  *)
(* easing, write mode, target, callbacks and chain list are unchanged and  *)
(* its elapsed time is dt more; its identifier and position may differ.    *)
(***************************************************************************)
C19_UpdateKeepsEveryOtherRecordOnce ==
    [][(UpdateStep /\ revision = "swap") =>
         LET stay == Positions(Surviving, 1, Len(Pre))
         IN  /\ Len(Post) = Len(stay) + out'.added
             /\ \E f \in Bijections(Len(stay)) :
                   \A k \in 1..Len(stay) :
                      Advanced(Pre[stay[k]], Post[f[k]], out'.dt)]_vars

\* an Update has removed the first and the last of three records, one
\* completed and one inactive, and kept the one between
C19_Witness ==
    /\ revision = "swap"
    /\ out.op = "Update"
    /\ out.size0 = 3
    /\ out.added = 0
    /\ 1 \in Range(out.completed) \cup Range(out.leftover)
    /\ 3 \in Range(out.completed) \cup Range(out.leftover)
    /\ out.completed # <<>>
    /\ out.leftover # <<>>
    /\ Len(Vec(out.r)) = 1
    /\ out.dt > 0


\* the position of the last record that writes target p in this Update
LastWriter(p) ==
    LET ws == {k \in 1..Len(out'.writes) : out'.writes[k].p = p}
    IN  IF ws = {} THEN 0
        ELSE out'.writes[CHOOSE k \in ws : \A k2 \in ws : k2 <= k].i

(***************************************************************************)
(* C20.  A by-pointer record whose duration is 0 completes in the first    *)
(* Update that finds it, for any deltaTime >= 0: the last value it writes  *)
(* is the boundary value (finalValue, or the start copy if reversed),      *)
(* which the target holds when Update returns unless a later record wrote  *)
(* the same target; onFinish is invoked once, every record of its chain    *)
(* list is appended, and the record is no longer in the collection.        *)
(***************************************************************************)
C20_ZeroDurationCompletesOnFirstUpdate ==
    [][(UpdateStep /\ revision = "swap") =>
         \A i \in 1..Len(Pre) :
            (Pre[i].fromReady /\ Pre[i].byPointer /\ Pre[i].duration = 0) =>
               LET tween == Pre[i]
                   boundary == IF tween.reversed THEN tween.initialCpy
                               ELSE tween.finalValue
               IN  /\ i \in Range(out'.completed)
                   /\ WritesBy(out', i) # <<>>
                   /\ Last(WritesBy(out', i)).v = boundary
                   /\ LastWriter(tween.initialValue) = i
                         => mem'[tween.initialValue] = boundary
                   /\ tween.finishCallback # "none"
                         => CountIn(out'.finishes, i) = 1
                   /\ \A k \in 1..Len(tween.endTween) :
                         \E j \in 1..Len(Appended) :
                            SameTween(Appended[j], tween.endTween[k])
                   /\ Len(Post) = Len(Positions(Surviving, 1, Len(Pre))) + out'.added
                   /\ \A j \in 1..Len(Post) : Post[j].completions = 0]_vars

\* the first Update of a single by-pointer record of duration 0, with
\* deltaTime > 0: the stepped value was 0 / 0, the target holds the boundary
\* value, onFinish was invoked, the chained record is the only record left
C20_Witness ==
    /\ revision = "swap"
    /\ out.op = "Update"
    /\ out.dt > 0
    /\ out.size0 = 1
    /\ out.completed = <<1>>
    /\ out.finishes = <<1>>
    /\ out.added = 1
    /\ Len(out.writes) = 2
    /\ out.writes[1].v = NaN
    /\ out.writes[2].v = Q(10)
    /\ mem[out.writes[2].p] = Q(10)
    /\ Len(Vec(out.r)) = 1

\* C21: in every reachable state, whichever header the program was built with
\* and with callbacks that do not call back into the registry, m_lastTweenIndex
\* of every STween object equals the size of m_tweenVec minus one, and is
\* therefore -1 exactly when m_tweenVec is empty.
C21_LastIndexIsSizeMinusOne ==
    \A r \in Registries :
       /\ reg[r].m_lastTweenIndex = Len(Vec(r)) - 1
       /\ (reg[r].m_lastTweenIndex = -1) <=> (Vec(r) = <<>>)

\* an Update of the older header whose removal loop did not find the record
\* it had queued, so that the record stays and the index is left alone
C21_Witness ==
    /\ revision = "erase"
    /\ out.op = "Update"
    /\ Len(out.completed) > 0
    /\ Len(Vec(out.r)) = out.size0
    /\ out.added = 0
    /\ reg[out.r].m_lastTweenIndex = Len(Vec(out.r)) - 1

\* the start and the end that Update hands to the easing function
StartOf(tween) ==
    IF tween.reversed THEN tween.finalValue ELSE tween.initialCpy

EndOf(tween) ==
    IF tween.reversed THEN tween.initialCpy ELSE tween.finalValue

(***************************************************************************)
(* C23.  Each of the thirteen easing functions returns start at position 0 *)
(* and end at position 1: in every Update, the value stepped for an active *)
(* record with duration > 0 is its start when its elapsed time is 0, and   *)
(* when its elapsed time equals its duration the stepped value equals the  *)
(* boundary value that the completion branch writes after it.              *)
(***************************************************************************)
C23_EasingsReturnStartAndEnd ==
    [][UpdateStep =>
         \A i \in 1..Len(Pre) :
            (Pre[i].fromReady /\ Pre[i].duration > 0 /\ Pre[i].byPointer)
            => /\ Pre[i].timeCounter = 0 =>
                    /\ WritesBy(out', i) # <<>>
                    /\ WritesBy(out', i)[1].v = StartOf(Pre[i])
               /\ Pre[i].timeCounter = Pre[i].duration =>
                    /\ Len(WritesBy(out', i)) = 2
                    /\ WritesBy(out', i)[1].v = EndOf(Pre[i])
                    /\ WritesBy(out', i)[1].v = WritesBy(out', i)[2].v]_vars

\* the same for the twelve easing functions other than QuadInOut
EasingsButQuadInOutReturnStartAndEnd ==
    [][UpdateStep =>
         \A i \in 1..Len(Pre) :
            ( /\ Pre[i].fromReady /\ Pre[i].duration > 0 /\ Pre[i].byPointer
              /\ Pre[i].easing # "QuadranticInOut" )
            => /\ Pre[i].timeCounter = 0 =>
                    /\ WritesBy(out', i) # <<>>
                    /\ WritesBy(out', i)[1].v = StartOf(Pre[i])
               /\ Pre[i].timeCounter = Pre[i].duration =>
                    /\ Len(WritesBy(out', i)) = 2
                    /\ WritesBy(out', i)[1].v = EndOf(Pre[i])
                    /\ WritesBy(out', i)[1].v = WritesBy(out', i)[2].v]_vars

\* QuadInOut at position 1 returns start - (end - start)
QuadInOutAtOne ==
    [][UpdateStep =>
         \A i \in 1..Len(Pre) :
            ( /\ Pre[i].fromReady /\ Pre[i].duration > 0 /\ Pre[i].byPointer
              /\ Pre[i].easing = "QuadranticInOut"
              /\ Pre[i].timeCounter = Pre[i].duration )
            => WritesBy(out', i)[1].v
                 = FSub(StartOf(Pre[i]),
                        FSub(EndOf(Pre[i]), StartOf(Pre[i])))]_vars

(***************************************************************************)
(* C24.  Chain replaces the chain list.  A Chain call stores in the last   *)
(* record exactly the records the chained registry holds, whatever list a  *)
(* previous Chain call left in that record; and the records an Update      *)
(* activates are those of the lists the completing records hold then, so   *)
(* none of a replaced list.                                                *)
(***************************************************************************)
C24_ChainReplacesChainList ==
    [][CallStep =>
         /\ out'.chained # <<>> =>
               LET st == reg[out'.r]
                   i == st.m_lastTweenIndex + 1
                   call == out'.chained[1]
               IN  /\ call.held = st.m_tweenVec[i].endTween
                   /\ \E q \in (DOMAIN reg) \ {out'.r} :
                         call.stored = reg[q].m_tweenVec
                   /\ reg'[out'.r].m_tweenVec[i].endTween = call.stored
                   /\ Len(reg'[out'.r].m_tweenVec) = Len(st.m_tweenVec)
         /\ out'.op = "Update" =>
               /\ out'.added = Len(ChainsFrom(1))
               /\ \A k \in 1..Len(Appended) :
                     SameTween(Appended[k], ChainsFrom(1)[k])]_vars

\* a second Chain call on the same record has just stored the records of one
\* registry over the non-empty list the first call had stored, and the two
\* lists have no record in common
C24_Witness ==
    /\ out.chained # <<>>
    /\ out.chained[1].held # <<>>
    /\ out.chained[1].stored # <<>>
    /\ \A k \in DOMAIN out.chained[1].held :
          \A j \in DOMAIN out.chained[1].stored :
             ~SameTween(out.chained[1].held[k], out.chained[1].stored[j])
                \/ out.chained[1].held[k].fromReady
                      # out.chained[1].stored[j].fromReady
    /\ Last(Vec(out.r)).endTween = out.chained[1].stored

\* an Update call of the program that only calls Update
DrainStep == out'.op = "Update"

\* the positions of Pre whose records this Update removed
Removed == Range(out'.completed) \cup Range(out'.leftover)

\* the chain lists of the records at the positions of Pre that satisfy Test
RECURSIVE ChainsOf(_, _)
ChainsOf(Test(_), i) ==
    IF i > Len(Pre) THEN <<>>
    ELSE (IF Test(i) THEN Pre[i].endTween ELSE <<>>) \o ChainsOf(Test, i + 1)

IsRemoved(i) == i \in Removed

\* under repeated Update with deltaTime > 0 the registry is empty from some
\* call on
EventuallyEmptyForGood == <>[](\A r \in Mains : Vec(r) = <<>>)

====
